---- MODULE Spec2Model ----
(***************************************************************************)
(* Model of info/views.py: the UIView component (a discord.ui.View) and    *)
(* its UISelect child.  One UIView instance is modelled from the moment    *)
(* its constructor has returned.  Every `await` of the source is a         *)
(* suspension point, so every coroutine is split into one action per       *)
(* segment between two awaits.                                             *)
(*                                                                         *)
(* Library behaviour the source relies on (discord.py, asyncio):           *)
(*  - self.view is the owning UIView while UISelect.__init__ runs, and     *)
(*    the list given to Select.__init__ is the list release() appends to;  *)
(*  - Message.edit and fetch_user fail with discord.HTTPException or a     *)
(*    subclass of it, as they document;                                    *)
(*  - a View dispatches an interaction to the item callback only when      *)
(*    interaction_check returned True, each interaction in a task of its   *)
(*    own, and dispatches nothing once it has timed out;                   *)
(*  - Task.cancel() on a task that has not finished makes the task raise   *)
(*    CancelledError the next time it runs; on a finished task it is a     *)
(*    no-op.                                                               *)
(***************************************************************************)
EXTENDS Integers, Sequences, FiniteSets, Bags, TLC

\* Number of interactions whose handlers may be suspended at the same time.
MaxInFlight == 2

VARIABLES
    options,        \* UISelect.options: the values of the SelectOptions, in order
    task,           \* state of UISelect._task, the task running release()
    cancelRequested,\* _task.cancel() was called while the task was unfinished
    fetched,        \* result of release()'s fetch_user: the banner it saw
    disabled,       \* UISelect.disabled (the only child of the view)
    stopped,        \* the view has timed out and dispatches nothing any more
    timeoutPc,      \* position of the on_timeout coroutine
    timeoutEdit,    \* what became of on_timeout's edit of the message
    message,        \* UIView._message: "MISSING" or "set"
    embed,          \* UIView.embed: MISSING or the memoized Home payload
    guild_avatar,   \* user.guild_avatar is set
    banner,         \* the user's profile, as fetch_user would return it, has a banner
    roles,          \* _get_roles(user) is non-empty
    nick,           \* user.nick is set (the member data the Home page reads)
    inflight,       \* bag of the interactions whose handler is suspended
    firstHome,      \* payload of the first Home selection that completed
    fmt,            \* a call of _format_roles: its member, its position, its result
    home            \* the description of a Home embed being built by _make_embed

vars == <<options, task, cancelRequested, fetched, disabled, stopped, timeoutPc,
          timeoutEdit, message, embed, guild_avatar, banner, roles, nick,
          inflight, firstHome, fmt, home>>

\* The calls of the functions that are checked on their own.
callVars == <<fmt, home>>

dataVars == <<guild_avatar, banner, roles, nick>>
timeoutVars == <<stopped, timeoutPc, timeoutEdit>>
taskVars == <<task, cancelRequested, fetched>>

\* The values of the five SelectOptions.
Pages == {"home", "avatar", "roles", "gavatar", "banner"}

\* ctx.author and anybody else.
Actors == {"author", "other"}

\* A discord.Embed: which page it shows, whether it carries an image, its
\* description, and the data-dependent fields.
Embed(page, image, desc, fields) ==
    [page |-> page, image |-> image, desc |-> desc, fields |-> fields]

\* discord.utils.MISSING
MISSING == Embed("MISSING", FALSE, "", <<>>)

IsPrefix(s, t) == Len(s) <= Len(t) /\ SubSeq(t, 1, Len(s)) = s

(***************************************************************************)
(* UISelect: the option list and the discovery task                        *)
(***************************************************************************)

\* UISelect.__init__: Home and Avatar, then Roles when _get_roles(user) is
\* non-empty.  The task created on line 36 does not run before the
\* constructor has returned.
InitialOptions(hasRoles) ==
    <<"home", "avatar">> \o (IF hasRoles THEN <<"roles">> ELSE <<>>)

\* Variant of release_guild_avatar: the option appended for every member.
release_guild_avatar_always(opts, g) ==
    Append(opts, "gavatar")

\* release(), up to its await: the Guild Avatar option.
release_guild_avatar(opts, g) ==
    IF g THEN Append(opts, "gavatar") ELSE opts

\* Variants of release_banner: the Banner option inserted after Avatar;
\* written over the last option; appended although fetch_user raised.
release_banner_insert(opts, f) ==
    IF f = "banner"
    THEN SubSeq(opts, 1, 2) \o <<"banner">> \o SubSeq(opts, 3, Len(opts))
    ELSE opts

release_banner_overwrite(opts, f) ==
    IF f = "banner" THEN [opts EXCEPT ![Len(opts)] = "banner"] ELSE opts

release_banner_on_error(opts, f) ==
    IF f \in {"banner", "error"} THEN Append(opts, "banner") ELSE opts

\* release(), after its await: the Banner option, when the fetched user has
\* a banner.  f is what fetch_user produced: "banner", "none" or "error"
\* (fetch_user raised, and so did release()).
release_banner(opts, f) ==
    IF f = "banner" THEN Append(opts, "banner") ELSE opts

Unfinished == {"pending", "fetching", "resolved"}

\* Variant of close: an earlier request is forgotten once the task ended.
close_unless_ended ==
    task \in Unfinished

\* UISelect.close(): _task is always a Task, hence truthy; Task.cancel() asks
\* an unfinished task to stop and does nothing to a finished one.  The value
\* is the new cancelRequested.
close ==
    cancelRequested \/ task \in Unfinished

\* The discovery task will append nothing any more.
DiscoveryStopped ==
    cancelRequested \/ task \notin Unfinished

\* The task's first run: release() up to `await fetch_user`.
ReleaseStart ==
    /\ task = "pending"
    /\ ~cancelRequested
    /\ options' = release_guild_avatar(options, guild_avatar)
    /\ task' = "fetching"
    /\ UNCHANGED <<cancelRequested, fetched, disabled, timeoutVars, message,
                   embed, dataVars, inflight, firstHome, callVars>>

\* fetch_user comes back, with the profile or with an exception; the task is
\* scheduled to run again.
FetchUserReturns(ok) ==
    /\ task = "fetching"
    /\ ~cancelRequested
    /\ task' = "resolved"
    /\ fetched' = IF ok THEN (IF banner THEN "banner" ELSE "none") ELSE "error"
    /\ UNCHANGED <<options, cancelRequested, disabled, timeoutVars, message,
                   embed, dataVars, inflight, firstHome, callVars>>

\* Variant of ReleaseResume: the task goes on although it was cancelled.
ReleaseResume_despite_cancel ==
    /\ task = "resolved"
    /\ options' = release_banner(options, fetched)
    /\ task' = IF fetched = "error" THEN "failed" ELSE "done"
    /\ fetched' = "unset"
    /\ UNCHANGED <<cancelRequested, disabled, timeoutVars, message,
                   embed, dataVars, inflight, firstHome, callVars>>

\* The task runs again: the rest of release(), or the exception of
\* fetch_user leaving it.  The local `fetched` ends with the coroutine.
ReleaseResume ==
    /\ task = "resolved"
    /\ ~cancelRequested
    /\ options' = release_banner(options, fetched)
    /\ task' = IF fetched = "error" THEN "failed" ELSE "done"
    /\ fetched' = "unset"
    /\ UNCHANGED <<cancelRequested, disabled, timeoutVars, message,
                   embed, dataVars, inflight, firstHome, callVars>>

\* The task runs after cancel(): CancelledError is thrown into release().
ReleaseCancelled ==
    /\ task \in Unfinished
    /\ cancelRequested
    /\ task' = "cancelled"
    /\ fetched' = "unset"
    /\ UNCHANGED <<options, cancelRequested, disabled, timeoutVars,
                   message, embed, dataVars, inflight, firstHome, callVars>>

\* A caller of the component calls close() on the select.
Close ==
    /\ cancelRequested' = close
    /\ cancelRequested' # cancelRequested
    /\ UNCHANGED <<options, task, fetched, disabled, timeoutVars, message,
                   embed, dataVars, inflight, firstHome, callVars>>

(***************************************************************************)
(* UIView: the pages                                                       *)
(***************************************************************************)

\* _callback, value == "avatar": the avatar, or the default avatar.
AvatarEmbed == Embed("avatar", TRUE, "", <<>>)

\* _callback, value == "gavatar".
GuildAvatarEmbed(g) ==
    IF g THEN Embed("gavatar", TRUE, "", <<>>)
         ELSE Embed("gavatar", FALSE, "does not have a guild specific avatar", <<>>)

\* _callback, value == "banner"; b is the banner of the user just fetched.
BannerEmbed(b) ==
    IF b THEN Embed("banner", TRUE, "", <<>>)
         ELSE Embed("banner", FALSE, "does not have a banner", <<>>)

\* _callback, value == "roles".
RolesEmbed(r) ==
    IF r THEN Embed("roles", FALSE, "_format_roles", <<>>)
         ELSE Embed("roles", FALSE, "does not have any roles in this server", <<>>)

\* _make_embed, lines 232-306: the Home payload built from the member data
\* read after get_names returned (n: the nick, which decides the title).
HomeEmbed(n) == Embed("home", TRUE, "", <<n>>)

Range(s) == {s[i] : i \in DOMAIN s}

\* Variant of RenderNow: the page rendered from what the option list holds.
RenderNow_cached(value) ==
    CASE value = "avatar"  -> AvatarEmbed
      [] value = "gavatar" -> GuildAvatarEmbed("gavatar" \in Range(options))
      [] value = "roles"   -> RolesEmbed("roles" \in Range(options))

\* The pages _callback renders without a further await.
RenderNow(value) ==
    CASE value = "avatar"  -> AvatarEmbed
      [] value = "gavatar" -> GuildAvatarEmbed(guild_avatar)
      [] value = "roles"   -> RolesEmbed(roles)

\* Variant of interaction_check: everybody passes.
interaction_check_anyone(actor) == TRUE

\* interaction_check, line 186.
interaction_check(actor) == actor = "author"

(***************************************************************************)
(* Interactions                                                            *)
(***************************************************************************)

\* One interaction and what its handler has done so far: value is the
\* self.values[0] that _callback reads ("unread" when the handler never gets
\* to _callback), info is the member data a Home render has read, after
\* tells that it selects Home and arrived when a Home selection had
\* completed, denials, edits and fetches count the ephemeral messages, the
\* edits of the message and the calls of fetch_user it made, payload is the
\* embed it edits the message with.
Inter(actor, value, pc, after) ==
    [actor |-> actor, value |-> value, pc |-> pc, info |-> FALSE, after |-> after,
     denials |-> 0, edits |-> 0, fetches |-> 0, payload |-> MISSING]

InFlight == BagToSet(inflight)

Replace(r, q) == (inflight (-) SetToBag({r})) (+) SetToBag({q})
Remove(r) == inflight (-) SetToBag({r})

\* `await interaction.edit_original_response(embed=e)`.
Editing(r, e) == [r EXCEPT !.pc = "edit", !.edits = @ + 1, !.payload = e]

\* The view receives an interaction and starts its handler, which runs
\* interaction_check up to its first await: for the author that is
\* _callback's defer(), for anybody else the send_message of the denial.
Dispatch(actor, value) ==
    /\ ~stopped
    /\ BagCardinality(inflight) < MaxInFlight
    /\ inflight' = inflight (+) SetToBag({
            IF interaction_check(actor)
            THEN Inter(actor, value, "defer", value = "home" /\ firstHome # MISSING)
            ELSE [Inter(actor, "unread", "denying", FALSE) EXCEPT !.denials = 1]})
    /\ UNCHANGED <<options, taskVars, disabled, timeoutVars, message, embed,
                   dataVars, firstHome, callVars>>

\* interaction_check after send_message: close the select, return False;
\* the view drops the interaction.
DenyReturns(r) ==
    /\ r.pc = "denying"
    /\ cancelRequested' = close
    /\ inflight' = Remove(r)
    /\ UNCHANGED <<options, task, fetched, disabled, timeoutVars, message,
                   embed, dataVars, firstHome, callVars>>

\* _callback after defer(): dispatch on the value, up to the next await;
\* for "home" that is in _make_embed unless the embed is there already.
DeferReturns(r) ==
    /\ r.pc = "defer"
    /\ inflight' = Replace(r,
          IF r.value = "home"
          THEN IF embed # MISSING
               THEN Editing(r, embed)
               ELSE [r EXCEPT !.pc = "names"]
          ELSE IF r.value = "banner"
               THEN [r EXCEPT !.pc = "fetch", !.fetches = @ + 1]
               ELSE Editing(r, RenderNow(r.value)))
    /\ UNCHANGED <<options, taskVars, disabled, timeoutVars, message, embed,
                   dataVars, firstHome, callVars>>

\* _make_embed: mod.get_names returns, the member data is read, and
\* get_user_badges is awaited; or get_names raises and so does the handler.
NamesReturns(r, ok) ==
    /\ r.pc = "names"
    /\ inflight' = IF ok THEN Replace(r, [r EXCEPT !.pc = "badges", !.info = nick])
                         ELSE Remove(r)
    /\ UNCHANGED <<options, taskVars, disabled, timeoutVars, message, embed,
                   dataVars, firstHome, callVars>>

\* _make_embed: get_user_badges returns, the embed is stored and returned,
\* and _callback edits the message with it.
BadgesReturns(r) ==
    /\ r.pc = "badges"
    /\ embed' = HomeEmbed(r.info)
    /\ inflight' = Replace(r, Editing(r, embed'))
    /\ UNCHANGED <<options, taskVars, disabled, timeoutVars, message, dataVars,
                   firstHome, callVars>>

\* _callback, "banner": fetch_user returns the profile, or raises and so
\* does the handler.
BannerFetchReturns(r, ok) ==
    /\ r.pc = "fetch"
    /\ inflight' = IF ok THEN Replace(r, Editing(r, BannerEmbed(banner)))
                         ELSE Remove(r)
    /\ UNCHANGED <<options, taskVars, disabled, timeoutVars, message, embed,
                   dataVars, firstHome, callVars>>

\* edit_original_response returns and the handler ends.
EditReturns(r) ==
    /\ r.pc = "edit"
    /\ inflight' = Remove(r)
    /\ firstHome' = IF r.value = "home" /\ firstHome = MISSING
                    THEN r.payload ELSE firstHome
    /\ UNCHANGED <<options, taskVars, disabled, timeoutVars, message, embed,
                   dataVars, callVars>>

(***************************************************************************)
(* Timeout                                                                 *)
(***************************************************************************)

\* Variant of suppress: nothing is suppressed.
suppress_nothing(outcome) == outcome

\* contextlib.suppress(discord.HTTPException): how the with block on lines
\* 180-182 ends, given how its body ended.
suppress(outcome) == IF outcome = "HTTPException" THEN "ok" ELSE outcome

\* The view times out: it stops dispatching and schedules on_timeout.
Timeout ==
    /\ ~stopped
    /\ stopped' = TRUE
    /\ timeoutPc' = "start"
    /\ UNCHANGED <<options, taskVars, disabled, timeoutEdit, message, embed,
                   dataVars, inflight, firstHome, callVars>>

\* on_timeout up to `await self._message.edit`, or to its end when there is
\* no message.
OnTimeoutStart ==
    /\ timeoutPc = "start"
    /\ disabled' = TRUE
    /\ IF message # "MISSING"
       THEN /\ timeoutPc' = "edit"
            /\ UNCHANGED <<timeoutEdit, cancelRequested>>
       ELSE /\ timeoutPc' = "done"
            /\ timeoutEdit' = "skipped"
            /\ cancelRequested' = close
    /\ UNCHANGED <<options, task, fetched, stopped, message, embed, dataVars,
                   inflight, firstHome, callVars>>

\* on_timeout after the edit: outcome is "ok" or "HTTPException".
OnTimeoutEditReturns(outcome) ==
    /\ timeoutPc = "edit"
    /\ timeoutEdit' = IF outcome = "ok" THEN "edited" ELSE "failed"
    /\ IF suppress(outcome) = "ok"
       THEN /\ cancelRequested' = close
            /\ timeoutPc' = "done"
       ELSE /\ cancelRequested' = cancelRequested
            /\ timeoutPc' = "raised"
    /\ UNCHANGED <<options, task, fetched, disabled, stopped, message, embed,
                   dataVars, inflight, firstHome, callVars>>

\* The command that created the view stores the message it sent.
SetMessage ==
    /\ message = "MISSING"
    /\ message' = "set"
    /\ UNCHANGED <<options, taskVars, disabled, timeoutVars, embed, dataVars,
                   inflight, firstHome, callVars>>

(***************************************************************************)
(* The member and the profile change under the component                   *)
(***************************************************************************)

ChangeGuildAvatar ==
    /\ guild_avatar' = ~guild_avatar
    /\ UNCHANGED <<options, taskVars, disabled, timeoutVars, message, embed,
                   banner, roles, nick, inflight, firstHome, callVars>>

ChangeBanner ==
    /\ banner' = ~banner
    /\ UNCHANGED <<options, taskVars, disabled, timeoutVars, message, embed,
                   guild_avatar, roles, nick, inflight, firstHome, callVars>>

ChangeRoles ==
    /\ roles' = ~roles
    /\ UNCHANGED <<options, taskVars, disabled, timeoutVars, message, embed,
                   guild_avatar, banner, nick, inflight, firstHome, callVars>>

ChangeNick ==
    /\ nick' = ~nick
    /\ UNCHANGED <<options, taskVars, disabled, timeoutVars, message, embed,
                   guild_avatar, banner, roles, inflight, firstHome, callVars>>

(***************************************************************************)
(* UIView._format_roles                                                    *)
(*                                                                         *)
(* A role mention is modelled by its length, a list of mentions by the     *)
(* sequence of their lengths, and an item of the output by its position in *)
(* the list _get_roles returned.                                           *)
(***************************************************************************)

\* The embed description limit the formatter compares against.
Budget == 4000

\* len("and {number} more roles not displayed due to embed limits.")
TemplateLen == 58

\* len("{number}"), the part of the template str.format replaces.
PlaceholderLen == 8

\* Most runs of equally long mentions in the roles of a member.
MaxRuns == 2

\* Lengths of role mentions and the numbers of roles sharing one length.
MentionLengths == {1, 23, 1000, 3940, 3941, 4000, 4001}
RunCounts == {1, 2, 161}

Rep(count, length) == [i \in 1..count |-> length]

RECURSIVE RunSeqs(_)
RunSeqs(k) ==
    IF k = 0 THEN {<<>>}
    ELSE LET shorter == RunSeqs(k - 1)
         IN  shorter \cup {Rep(c, l) \o s : c \in RunCounts,
                                           l \in MentionLengths, s \in shorter}

\* member.roles: @everyone (its mention has 9 characters) comes first.
MemberRoles == {<<9>> \o s : s \in RunSeqs(MaxRuns)}

Reverse(s) == [i \in 1..Len(s) |-> s[Len(s) + 1 - i]]

\* list(reversed(member.roles))[:-1]; None and [] are both falsy.
get_roles(member_roles) ==
    LET reversed == Reverse(member_roles)
    IN  SubSeq(reversed, 1, Len(reversed) - 1)

\* The sum of lengths[lo..hi], by halves.
RECURSIVE SumLen(_, _, _)
SumLen(lengths, lo, hi) ==
    IF lo > hi THEN 0
    ELSE IF lo = hi THEN lengths[lo]
    ELSE LET mid == (lo + hi) \div 2
         IN  SumLen(lengths, lo, mid) + SumLen(lengths, mid + 1, hi)

\* len(", ".join(roles))
JoinLen(lengths) ==
    IF lengths = <<>> THEN 0
    ELSE SumLen(lengths, 1, Len(lengths)) + 2 * (Len(lengths) - 1)

OverBudget_inclusive(length) == length >= Budget
\* len(string) > 4000
OverBudget(length) == length > Budget

Fits_exactly(size, available_length) == size <= available_length
\* size < available_length
Fits(size, available_length) == size < available_length

AvailableAfter_unchanged(available_length, size) == available_length
\* available_length -= size
AvailableAfter(available_length, size) == available_length - size

Omitted_once(remaining) == 1
\* remaining += 1
Omitted(remaining) == remaining + 1

\* The body of the for loop for the item at position i; loop holds
\* available_length, chunks and remaining.
loop_body(role_list, i, loop) ==
    LET size == role_list[i] + 1
    IN  IF Fits(size, loop.available_length)
        THEN [loop EXCEPT
                !.available_length = AvailableAfter(loop.available_length, size),
                !.chunks = Append(loop.chunks, i)]
        ELSE [loop EXCEPT !.remaining = Omitted(loop.remaining)]

\* The for loop over the items lo..hi in order, evaluated by halves.  The
\* test on first_half always holds: it makes the evaluation of the first
\* half precede that of the second, as the iterations do.
RECURSIVE format_loop(_, _, _, _)
format_loop(role_list, lo, hi, loop) ==
    IF lo > hi THEN loop
    ELSE IF lo = hi THEN loop_body(role_list, lo, loop)
    ELSE LET mid == (lo + hi) \div 2
             first_half == format_loop(role_list, lo, mid, loop)
         IN  IF first_half.remaining >= 0
             THEN format_loop(role_list, mid + 1, hi, first_half)
             ELSE first_half

\* The result: MISSING, or the items with what follows or separates them and
\* the numbers the summary lines state (no summary line: <<>>).
format_roles(role_list) ==
    IF role_list = <<>>
    THEN [sentinel |-> TRUE, items |-> <<>>, sep |-> "", summary |-> <<>>]
    ELSE IF OverBudget(JoinLen(role_list))
    THEN LET loop == format_loop(role_list, 1, Len(role_list),
                                 [available_length |-> Budget - TemplateLen,
                                  chunks |-> <<>>, remaining |-> 0])
         IN  [sentinel |-> FALSE, items |-> loop.chunks, sep |-> "\n",
              summary |-> <<loop.remaining>>]
    ELSE [sentinel |-> FALSE, items |-> [i \in 1..Len(role_list) |-> i],
          sep |-> ", ", summary |-> <<>>]

RECURSIVE Digits(_)
Digits(n) == IF n < 10 THEN 1 ELSE 1 + Digits(n \div 10)

\* The lengths of the accepted items.
Accepted(out, role_list) == [k \in 1..Len(out.items) |-> role_list[out.items[k]]]

\* len() of the chunks that are items, each with its newline.
ChunksLen(out, role_list) ==
    SumLen(Accepted(out, role_list), 1, Len(out.items)) + Len(out.items)

\* len() of the string the formatter returned.
OutLen(out, role_list) ==
    IF out.sep = ", " THEN JoinLen(Accepted(out, role_list))
    ELSE ChunksLen(out, role_list)
         + (IF out.summary = <<>> THEN 0
            ELSE TemplateLen - PlaceholderLen + Digits(out.summary[1]))

NoCall == [pc |-> "idle"]

FormatRoles ==
    /\ fmt.pc = "call"
    /\ fmt' = [fmt EXCEPT !.pc = "done",
                          !.out = format_roles(get_roles(fmt.member_roles))]
    /\ UNCHANGED <<options, taskVars, disabled, timeoutVars, message, embed,
                   dataVars, inflight, firstHome, home>>

(***************************************************************************)
(* UIView._make_embed: the description of the Home embed                   *)
(*                                                                         *)
(* A description is the sequence of its parts.                             *)
(***************************************************************************)

\* Most guilds the member shares with the bot.
MaxShared == 2

\* The description built from the presence data; status is whether
\* get_status_string returned a non-empty string.
presence_description(presences, status) ==
    IF presences
    THEN IF status THEN <<"status", "devices">> ELSE <<"devices">>
    ELSE <<>>

\* The description argument of discord.Embed: one conditional expression.
description(presence, shared) ==
    IF shared > 1
    THEN presence \o <<"Shared Servers">>
    ELSE <<"Shared Server">>

DescribeHome ==
    /\ home.pc = "call"
    /\ home' = [home EXCEPT
                  !.pc = "done",
                  !.description =
                      description(presence_description(home.presences,
                                                       home.status),
                                  home.shared)]
    /\ UNCHANGED <<options, taskVars, disabled, timeoutVars, message, embed,
                   dataVars, inflight, firstHome, fmt>>

(***************************************************************************)
(* The component                                                           *)
(***************************************************************************)

\* UIView.__init__ and UISelect.__init__ have returned.
Init ==
    /\ guild_avatar \in BOOLEAN
    /\ banner \in BOOLEAN
    /\ roles \in BOOLEAN
    /\ nick \in BOOLEAN
    /\ options = InitialOptions(roles)
    /\ task = "pending"
    /\ cancelRequested = FALSE
    /\ fetched = "unset"
    /\ disabled = FALSE
    /\ stopped = FALSE
    /\ timeoutPc = "idle"
    /\ timeoutEdit = "none"
    /\ message = "MISSING"
    /\ embed = MISSING
    /\ inflight = EmptyBag
    /\ firstHome = MISSING
    /\ fmt = NoCall
    /\ home = NoCall

Next ==
    \/ ReleaseStart
    \/ \E ok \in BOOLEAN : FetchUserReturns(ok)
    \/ ReleaseResume
    \/ ReleaseCancelled
    \/ Close
    \/ \E a \in Actors, v \in Pages : Dispatch(a, v)
    \/ \E r \in InFlight : DenyReturns(r)
    \/ \E r \in InFlight : DeferReturns(r)
    \/ \E r \in InFlight, ok \in BOOLEAN : NamesReturns(r, ok)
    \/ \E r \in InFlight : BadgesReturns(r)
    \/ \E r \in InFlight, ok \in BOOLEAN : BannerFetchReturns(r, ok)
    \/ \E r \in InFlight : EditReturns(r)
    \/ Timeout
    \/ OnTimeoutStart
    \/ \E o \in {"ok", "HTTPException"} : OnTimeoutEditReturns(o)
    \/ SetMessage

\* The component beside a member and a profile that change during its life.
NextChanging ==
    \/ Next
    \/ ChangeGuildAvatar
    \/ ChangeBanner
    \/ ChangeRoles
    \/ ChangeNick

\* The component, the member and the profile staying as they were when it
\* was constructed.
Spec == Init /\ [][Next]_vars

\* The component, the member and the profile changing under it.
SpecChanging == Init /\ [][NextChanging]_vars

\* One call of _format_roles or one Home description, for any member.
InitCalls ==
    /\ guild_avatar = FALSE
    /\ banner = FALSE
    /\ roles = FALSE
    /\ nick = FALSE
    /\ options = InitialOptions(roles)
    /\ task = "pending"
    /\ cancelRequested = FALSE
    /\ fetched = "unset"
    /\ disabled = FALSE
    /\ stopped = FALSE
    /\ timeoutPc = "idle"
    /\ timeoutEdit = "none"
    /\ message = "MISSING"
    /\ embed = MISSING
    /\ inflight = EmptyBag
    /\ firstHome = MISSING
    /\ \/ /\ fmt \in {[pc |-> "call", member_roles |-> m, out |-> <<>>] :
                          m \in MemberRoles}
          /\ home = NoCall
       \/ /\ fmt = NoCall
          /\ home \in {[pc |-> "call", presences |-> p, status |-> s,
                        shared |-> n, description |-> <<>>] :
                           p \in BOOLEAN, s \in BOOLEAN, n \in 0..MaxShared}

NextCalls ==
    \/ FormatRoles
    \/ DescribeHome

SpecCalls == InitCalls /\ [][NextCalls]_vars

\* The event loop runs every task that is ready: the discovery task when it
\* was created, when fetch_user has ended and when it was cancelled; and
\* fetch_user ends, with the profile or with an exception.
SpecLive ==
    /\ Spec
    /\ WF_vars(ReleaseStart)
    /\ WF_vars(\E ok \in BOOLEAN : FetchUserReturns(ok))
    /\ WF_vars(ReleaseResume)
    /\ WF_vars(ReleaseCancelled)

(***************************************************************************)
(* Properties                                                              *)
(***************************************************************************)

\* The handler of r ends in this step.
Ends(r) ==
    /\ CopiesIn(r, inflight') < CopiesIn(r, inflight)
    /\ BagCardinality(inflight') < BagCardinality(inflight)

\* The record q enters the bag in this step.
Begins(q) == CopiesIn(q, inflight') > CopiesIn(q, inflight)

\* C1: once the handler of an interaction of somebody other than the author
\* has ended, the component is timed out: its control is disabled, the
\* discovery is cancelled and the view takes no interaction any more.
C1_WrongActorTimesOut ==
    [][\A r \in InFlight :
          r.actor # "author" /\ Ends(r)
              => disabled' /\ DiscoveryStopped' /\ stopped']_vars

\* C2: an interaction of somebody other than the author gets one ephemeral
\* denial and never reaches _callback: its handler edits nothing, fetches
\* nothing and renders nothing, and no step of it changes the memoized Home
\* embed.
C2_WrongActorOnlyDenied ==
    /\ [](\A r \in InFlight :
            r.actor # "author" =>
                /\ r.pc = "denying"
                /\ r.denials = 1
                /\ r.edits = 0
                /\ r.fetches = 0
                /\ r.payload = MISSING)
    /\ [][\A r \in InFlight :
            r.actor # "author" /\ CopiesIn(r, inflight') # CopiesIn(r, inflight)
                => embed' = embed]_vars

\* C2 witness: a denial is being sent while the Home embed is memoized and
\* the author has an edit under way.
C2_Witness ==
    /\ embed # MISSING
    /\ \E r \in InFlight : r.actor = "other" /\ r.denials = 1
    /\ \E r \in InFlight : r.actor = "author" /\ r.pc = "edit"

Rank(page) ==
    CASE page = "home"    -> 1
      [] page = "avatar"  -> 2
      [] page = "roles"   -> 3
      [] page = "gavatar" -> 4
      [] page = "banner"  -> 5

\* C4: the options are always a subsequence of [Home, Avatar, Roles,
\* GuildAvatar, Banner] that starts with Home, Avatar.
C4_OptionOrder ==
    /\ Len(options) >= 2
    /\ options[1] = "home"
    /\ options[2] = "avatar"
    /\ \A i, j \in DOMAIN options : i < j => Rank(options[i]) < Rank(options[j])

\* C4 witness: the discovery has added both of its options.
C4_Witness ==
    /\ "gavatar" \in Range(options)
    /\ "banner" \in Range(options)

\* C5: every step leaves the options it finds where they are: the option
\* sequence before the step is a prefix of the one after it.
C5_OptionsAppendOnly ==
    [][IsPrefix(options, options')]_vars

\* C5 witness: the discovery was cancelled between its two appends, after
\* the view timed out, and the options have grown beyond the initial ones.
C5_Witness ==
    /\ task = "cancelled"
    /\ stopped
    /\ "gavatar" \in Range(options)
    /\ "banner" \notin Range(options)

\* C6: a Home selection that arrives after a Home selection has completed
\* edits the message with the payload of that completed selection.
C6_LaterHomeSamePayload ==
    \A r \in InFlight :
        r.pc = "edit" /\ r.value = "home" /\ r.after => r.payload = firstHome

\* C7: a Guild Avatar or Roles selection renders the member as it is when
\* _callback renders, and a Banner selection fetches the user once and
\* renders the profile as fetched.
C7_PagesRenderCurrentData ==
    [][\A q \in BagToSet(inflight') :
          q.pc = "edit" /\ Begins(q) =>
              /\ q.value = "gavatar" => q.payload = GuildAvatarEmbed(guild_avatar)
              /\ q.value = "roles" => q.payload = RolesEmbed(roles)
              /\ q.value = "banner" =>
                    q.payload = BannerEmbed(banner) /\ q.fetches = 1]_vars

\* C7 witness: two Banner selections are editing the message with
\* different payloads, the profile having changed between their fetches.
C7_Witness ==
    \E r, q \in InFlight :
        /\ r.pc = "edit" /\ q.pc = "edit"
        /\ r.value = "banner" /\ q.value = "banner"
        /\ r.fetches = 1 /\ q.fetches = 1
        /\ r.payload # q.payload

\* C8: when fetch_user fails in release(), the step in which release()
\* ends changes nothing but the task: no option, no control, no handler;
\* and Banner is not among the options of a component whose discovery
\* failed.
C8_DiscoveryFailureSwallowed ==
    /\ [](task = "failed" => "banner" \notin Range(options))
    /\ [][task # "failed" /\ task' = "failed" =>
            /\ options' = options
            /\ disabled' = disabled
            /\ stopped' = stopped
            /\ timeoutPc' = timeoutPc
            /\ inflight' = inflight
            /\ embed' = embed]_vars

\* C8 witness: the discovery failed after adding Guild Avatar, and the
\* component, still active, is editing the message for the author.
C8_Witness ==
    /\ task = "failed"
    /\ "gavatar" \in Range(options)
    /\ ~stopped
    /\ ~disabled
    /\ \E r \in InFlight : r.actor = "author" /\ r.pc = "edit"

\* C9: a handler that waits for get_names or for fetch_user goes on to
\* render when the call ends, whether the call succeeded or failed.
C9_RenderSurvivesFailure ==
    [][\A r \in InFlight :
          r.pc \in {"names", "fetch"} /\ CopiesIn(r, inflight') < CopiesIn(r, inflight)
              => \E q \in BagToSet(inflight') :
                    q.pc \in {"badges", "edit"} /\ Begins(q)]_vars

\* C10: the handler of an interaction of the author ends only after one
\* edit of the message with the payload of the chosen page, and no step of
\* it disables the control, stops the view or cancels the discovery.
C10_AuthorSelectionEditsOnce ==
    [][\A r \in InFlight :
          r.actor = "author" =>
              /\ Ends(r) =>
                    r.pc = "edit" /\ r.edits = 1 /\ r.payload.page = r.value
              /\ CopiesIn(r, inflight') # CopiesIn(r, inflight) =>
                    /\ disabled' = disabled
                    /\ stopped' = stopped
                    /\ cancelRequested' = cancelRequested]_vars

(***************************************************************************)
(* Properties of the formatter                                             *)
(***************************************************************************)

\* The list handed to the loop by the call in fmt.
FormattedRoles == get_roles(fmt.member_roles)

\* The call in fmt has returned for a list whose join exceeds the budget.
Overflowed == fmt.pc = "done" /\ JoinLen(FormattedRoles) > Budget

\* The positions 1..n in order.
Positions(n) == [i \in 1..n |-> i]

\* C11: a role list whose ", "-join has at most 4000 characters is returned
\* as that join of all its items with no overflow line; the empty list is
\* returned as the MISSING sentinel.
C11_WithinBudgetPlainJoin ==
    fmt.pc = "done" /\ JoinLen(FormattedRoles) <= Budget =>
        IF FormattedRoles = <<>>
        THEN fmt.out.sentinel
        ELSE /\ ~fmt.out.sentinel
             /\ fmt.out.sep = ", "
             /\ fmt.out.items = Positions(Len(FormattedRoles))
             /\ fmt.out.summary = <<>>

\* A list whose join has exactly 4000 characters was returned joined.
C11_Witness ==
    /\ fmt.pc = "done"
    /\ JoinLen(FormattedRoles) = Budget
    /\ fmt.out.sep = ", "

\* C12: for a role list whose join exceeds 4000 characters, the returned
\* string (accepted items each with a newline, then the overflow line with
\* its number) has at most 4000 characters.
C12_OverflowWithinBudget ==
    Overflowed => OutLen(fmt.out, FormattedRoles) <= Budget

\* An overflow output within ten characters of the budget.
C12_Witness ==
    /\ Overflowed
    /\ fmt.out.items # <<>>
    /\ fmt.out.summary # <<>>
    /\ OutLen(fmt.out, FormattedRoles) >= Budget - 10

\* C13: for a role list whose join exceeds 4000 characters, the number in
\* the overflow line is the number of items left out, and the accepted items
\* are distinct items of the list in the order of the list.
C13_CountMatchesOmitted ==
    Overflowed =>
        /\ Len(fmt.out.summary) = 1
        /\ Len(fmt.out.items) + fmt.out.summary[1] = Len(FormattedRoles)
        /\ \A k \in 1..Len(fmt.out.items) :
               /\ fmt.out.items[k] \in 1..Len(FormattedRoles)
               /\ k > 1 => fmt.out.items[k - 1] < fmt.out.items[k]

\* Several items accepted and several left out.
C13_Witness ==
    /\ Overflowed
    /\ Len(fmt.out.items) >= 2
    /\ fmt.out.summary # <<>>
    /\ fmt.out.summary[1] >= 2

\* C14: when every item of the list is in the output, the output is the
\* ", "-join and has no overflow line.
C14_SummaryOnlyWhenOmitted ==
    /\ fmt.pc = "done"
    /\ ~fmt.out.sentinel
    /\ Len(fmt.out.items) = Len(FormattedRoles)
    => fmt.out.summary = <<>> /\ fmt.out.sep = ", "

\* C15 as stated: in the overflow case the accepted items are the first
\* items of the list, and their chunks are together shorter than the budget
\* less the length reserved for the overflow line.
C15_AcceptedLeadingPrefix ==
    Overflowed =>
        /\ fmt.out.items = Positions(Len(fmt.out.items))
        /\ ChunksLen(fmt.out, FormattedRoles) < Budget - TemplateLen

\* C15: in the overflow case the accepted items keep the order of the list,
\* an item may be accepted after an earlier one was left out, and the
\* accepted chunks are together shorter than the budget less the length
\* reserved for the overflow line.
C15_AcceptedInOrderWithinReserve ==
    Overflowed =>
        /\ \A k \in 2..Len(fmt.out.items) :
               fmt.out.items[k - 1] < fmt.out.items[k]
        /\ ChunksLen(fmt.out, FormattedRoles) < Budget - TemplateLen

\* An item was accepted after an earlier item was left out.
C15_Witness ==
    /\ Overflowed
    /\ \E k \in 1..Len(fmt.out.items) : fmt.out.items[k] > k

(***************************************************************************)
(* Properties of the Home description                                      *)
(***************************************************************************)

\* C16: the description of the Home embed has the presence line with the
\* device indicators exactly when the presences intent is enabled, whatever
\* the number of shared guilds.
C16_PresenceLineIffEnabled ==
    home.pc = "done" =>
        ("devices" \in Range(home.description) <=> home.presences)

(***************************************************************************)
(* Properties of the discovery and of overlapping selections               *)
(***************************************************************************)

\* This step runs UISelect.close(): a denial handler ends, on_timeout
\* reaches its last statement, or a caller's close() asks for a cancellation.
CallsClose ==
    \/ \E r \in InFlight : r.pc = "denying" /\ Ends(r)
    \/ timeoutPc # "done" /\ timeoutPc' = "done"
    \/ cancelRequested' # cancelRequested

\* C17: close() in any state of the discovery leaves the option sequence,
\* the task and what it fetched alone; after it a further close() changes
\* nothing, and a close() after a cancellation or after the end of the task
\* changes nothing at all.
C17_CloseIdempotent ==
    [][CallsClose =>
          /\ options' = options
          /\ task' = task
          /\ fetched' = fetched
          /\ cancelRequested' = close
          /\ close' = cancelRequested'
          /\ DiscoveryStopped => cancelRequested' = cancelRequested]_vars

\* on_timeout has called close(), the task has ended cancelled, and a
\* denial handler is about to call close() again.
C17_Witness ==
    /\ timeoutPc = "done"
    /\ cancelRequested
    /\ task = "cancelled"
    /\ \E r \in InFlight : r.pc = "denying"

\* The handlers that are inside the Home computation of _make_embed.
Computing ==
    {r \in InFlight : r.value = "home" /\ r.pc \in {"names", "badges"}}

\* C18: the Home embed is computed once: at most one handler is inside the
\* computation at a time, and Home selections that are editing the message
\* at the same time send the same payload.
C18_HomeComputedOnce ==
    /\ \A r \in Computing :
          Computing = {r} /\ CopiesIn(r, inflight) = 1
    /\ \A r, q \in InFlight :
          /\ r.value = "home" /\ r.pc = "edit"
          /\ q.value = "home" /\ q.pc = "edit"
          => r.payload = q.payload

\* C19: the component is constructed with Home, Avatar and, for a member
\* with roles, Roles, before the discovery task has run; the discovery task
\* ends; and when it ends normally the options have Guild Avatar exactly for
\* a member with a guild avatar and Banner exactly for a profile with a
\* banner.
C19_DiscoveryTerminates ==
    /\ [](task = "pending" => options = InitialOptions(roles))
    /\ <>(task \notin Unfinished)
    /\ [](task = "done" =>
             /\ "gavatar" \in Range(options) <=> guild_avatar
             /\ "banner" \in Range(options) <=> banner)

\* The discovery ended normally, never cancelled, for a member with a guild
\* avatar and a profile without banner.
C19_Witness ==
    /\ task = "done"
    /\ ~cancelRequested
    /\ guild_avatar
    /\ ~banner
    /\ "gavatar" \in Range(options)

\* C20: once the cancellation of the discovery has been requested, the
\* option sequence never changes.
C20_NoOptionAfterCancel ==
    [][cancelRequested => options' = options]_vars

\* The cancellation was requested after fetch_user had returned a profile
\* with a banner and before the task ran again.
C20_Witness ==
    /\ cancelRequested
    /\ task = "resolved"
    /\ fetched = "banner"

====
